---- MODULE Spec2Model ----
(***************************************************************************)
(* Model of the well-test fitting core (FittingCore, src/fittingcore.cpp): *)
(* the log-spaced resampler getLogSampledData and the Levenberg-Marquardt  *)
(* session driven by startFit / stopFit on a background task.              *)
(*                                                                         *)
(* Number grids.  Doubles are modelled on exact integer grids:             *)
(*   - times in units of 1e-4 h.  On this grid  t <= 1e-10  iff  t <= 0,   *)
(*     |t - u| < 1e-9  iff  t = u,  and the clamp value 1e-4 is 1;         *)
(*   - parameter values in units of 0.01.  On this grid  v > 1e-9  and     *)
(*     v > 1e-12  both mean  v > 0,  and  1.01 * v  is  v * 101 / 100,     *)
(*     exact for the multiples of 100 the parameter lists use;             *)
(*   - sums of squared residuals in units of 1e-3, so that the gate        *)
(*     SSE / n < 3e-3  is  SSE < 3 * n.                                    *)
(* Comparisons against log-spaced targets are decided in exact real        *)
(* arithmetic (by comparing integer powers), never by rounding a target.   *)
(***************************************************************************)
EXTENDS Integers, Sequences, FiniteSets, TLC

\* ------------------------------------------------------------------ bounds

\* longest observation series the resampler specification enumerates
MaxLen == 4
\* largest time value (in grid units) of an enumerated series
MaxT == 4
\* longest observation series of the Horner regression specification
MaxObs == 12
\* the evaluator's sums of squared residuals are the MaxSSE + 1 lowest
\* multiples of 0.016 (and NaN)
MaxSSE == 2

\* ------------------------------------------------- constants of the program

\* int targetCount = 200  (default plan)
TargetCount == 200
\* the value 1e-4 that replaces a first time <= 1e-10, in time units
ClampT == 1
\* int maxIter = 50
MaxIter == 50
\* for(int tryIter=0; tryIter<5; ++tryIter)
MaxTry == 5
\* double lambda = 0.01, kept as its decimal exponent
LambdaInitExp == -2
\* lambda > 1e10
LambdaStopExp == 10
\* (currentSSE / residuals.size()) < 3e-3, in units of 1e-3
GateMilli == 3

\* ------------------------------------------------------------ small helpers

Min2(a, b) == IF a < b THEN a ELSE b
Max2(a, b) == IF a > b THEN a ELSE b

RECURSIVE Pow(_, _)
Pow(b, e) == IF e = 0 THEN 1 ELSE b * Pow(b, e - 1)

\* element i of a QVector, 0-based as in the code
At(s, i) == s[i + 1]

\* ------------------------------------------------------------ the resampler

\* std::lower_bound(srcT.begin(), srcT.end(), x) as a 0-based index
LowerBound(srcT, x) ==
    IF \E k \in 1..Len(srcT) : srcT[k] >= x
    THEN (CHOOSE k \in 1..Len(srcT) :
            srcT[k] >= x /\ \A j \in 1..(k - 1) : srcT[j] < x) - 1
    ELSE Len(srcT)

\* std::upper_bound(srcT.begin(), srcT.end(), x) as a 0-based index
UpperBound(srcT, x) ==
    IF \E k \in 1..Len(srcT) : srcT[k] > x
    THEN (CHOOSE k \in 1..Len(srcT) :
            srcT[k] > x /\ \A j \in 1..(k - 1) : srcT[j] <= x) - 1
    ELSE Len(srcT)

\* The i-th of n log-spaced targets between lo and hi:
\*   targetT = (count == 1) ? subMin : pow(10, logMin + i * step)
\* with step = (log10(hi) - log10(lo)) / (n - 1): the real number T with
\* T^(n-1) = lo^(n-1-i) * hi^i.  It is kept symbolically and only compared.
\* lo > 0 always (a first time <= 1e-10 is replaced by 1e-4).  When hi = 0,
\* log10(hi) is -inf and so is step: 0 * step is NaN for i = 0, and the
\* target is pow(10, -inf) = 0 for i > 0.
Target(lo, hi, i, n) ==
    [nan |-> n > 1 /\ hi <= 0 /\ i = 0, lo |-> lo, hi |-> hi, i |-> i, n |-> n]

\* s < 2 * T (less = TRUE) or s > 2 * T (less = FALSE) for the target tg, by
\* cases that need no root where there is one, else by comparing
\* s^(n-1) with 2^(n-1) * lo^(n-1-i) * hi^i
TwiceTargetCmp(s, tg, less) ==
    LET lt(a, b) == IF less THEN a < b ELSE a > b
        mn == Min2(tg.lo, tg.hi)
        mx == Max2(tg.lo, tg.hi)
        m  == tg.n - 1
    IN  IF tg.n = 1 \/ tg.lo = tg.hi THEN lt(s, 2 * tg.lo)
        ELSE IF tg.hi <= 0 THEN lt(s, 0)
        ELSE IF tg.i = 0 THEN lt(s, 2 * tg.lo)
        ELSE IF tg.i = m THEN lt(s, 2 * tg.hi)
        ELSE IF s <= 2 * mn THEN less
        ELSE IF s >= 2 * mx THEN ~less
        ELSE lt(Pow(s, m), Pow(2, m) * Pow(tg.lo, m - tg.i) * Pow(tg.hi, tg.i))

\* diff < minDiff, that is std::abs(t1 - T) < std::abs(t0 - T), in exact
\* arithmetic: (t1 - t0) * (t1 + t0) < 2 * T * (t1 - t0).  A NaN target makes
\* every diff NaN, and the comparison false.
Closer(t1, t0, tg) ==
    IF tg.nan \/ t1 = t0 THEN FALSE
    ELSE TwiceTargetCmp(t1 + t0, tg, t1 > t0)

\* the while loop of the cursor scan once its first element has become bestIdx
\* (minDiff starts at 1e30, so the first element does unless its diff is NaN)
RECURSIVE Advance(_, _, _, _)
Advance(srcT, best, idxEnd, tg) ==
    IF best + 1 < idxEnd /\ Closer(At(srcT, best + 1), At(srcT, best), tg)
    THEN Advance(srcT, best + 1, idxEnd, tg)
    ELSE best

\* bestIdx for one target, scanning from the cursor cur up to idxEnd
NearestFrom(srcT, cur, idxEnd, tg) ==
    IF cur < idxEnd /\ ~tg.nan THEN Advance(srcT, cur, idxEnd, tg) ELSE cur

\* the for loop over the targets i .. j-1 of count with the monotone cursor:
\* the sequence of chosen indices.  The range is evaluated in halves (which
\* keeps the evaluation shallow for 200 targets): the cursor enters the second
\* half where the first half left it (currentIndex = bestIdx).
RECURSIVE ScanRange(_, _, _, _, _, _, _, _)
ScanRange(srcT, cur, idxEnd, lo, hi, i, j, count) ==
    IF j <= i THEN <<>>
    ELSE IF j = i + 1
    THEN <<NearestFrom(srcT, cur, idxEnd, Target(lo, hi, i, count))>>
    ELSE LET mid   == (i + j) \div 2
             left  == ScanRange(srcT, cur, idxEnd, lo, hi, i, mid, count)
             right == ScanRange(srcT, left[Len(left)], idxEnd, lo, hi, mid, j, count)
         IN  left \o right

\* for(int i=0; i<count; ++i) { ... }
ScanTargets(srcT, cur, idxEnd, lo, hi, count) ==
    ScanRange(srcT, cur, idxEnd, lo, hi, 0, count, count)

\* points.append({srcT[bestIdx], bestIdx<srcP.size()?srcP[bestIdx]:0.0, ...})
PointAt(srcT, srcP, srcD, idx) ==
    [t |-> At(srcT, idx),
     p |-> IF idx < Len(srcP) THEN At(srcP, idx) ELSE 0,
     d |-> IF idx < Len(srcD) THEN At(srcD, idx) ELSE 0]

\* the points appended for a sequence of chosen indices
PointsOf(srcT, srcP, srcD, idxs) ==
    [k \in 1..Len(idxs) |-> PointAt(srcT, srcP, srcD, idxs[k])]

\* the default plan for more than targetCount points
DefaultPlanPoints(srcT, srcP, srcD) ==
    LET tMin == IF At(srcT, 0) <= 0 THEN ClampT ELSE At(srcT, 0)
        tMax == At(srcT, Len(srcT) - 1)
    IN  PointsOf(srcT, srcP, srcD,
                 ScanTargets(srcT, 0, Len(srcT), tMin, tMax, TargetCount))

\* the body of the loop over m_customIntervals for one interval
IntervalPoints(srcT, srcP, srcD, interval) ==
    LET idxStart == LowerBound(srcT, interval.tStart)
        idxEnd   == UpperBound(srcT, interval.tEnd)
    IN  IF interval.count <= 0 THEN <<>>
        ELSE IF idxStart >= Len(srcT) \/ idxStart >= idxEnd THEN <<>>
        ELSE LET subMin == IF At(srcT, idxStart) <= 0 THEN ClampT
                                                      ELSE At(srcT, idxStart)
                 subMax == At(srcT, idxEnd - 1)
             IN  PointsOf(srcT, srcP, srcD,
                          ScanTargets(srcT, idxStart, idxEnd, subMin, subMax,
                                      interval.count))

RECURSIVE CustomPlanPoints(_, _, _, _)
CustomPlanPoints(srcT, srcP, srcD, intervals) ==
    IF intervals = <<>> THEN <<>>
    ELSE IntervalPoints(srcT, srcP, srcD, Head(intervals))
            \o CustomPlanPoints(srcT, srcP, srcD, Tail(intervals))

\* std::sort(points) with operator< on t: the points in ascending time.  The
\* order std::sort gives points of equal time is unspecified; here they keep
\* the order they were appended in (the times of the result do not depend on
\* it).
SortPoints(points) ==
    LET n    == Len(points)
        rank == [k \in 1..n |->
                    Cardinality({j \in 1..n :
                        \/ points[j].t < points[k].t
                        \/ (points[j].t = points[k].t /\ j <= k)})]
        at   == [r \in 1..n |-> CHOOSE k \in 1..n : rank[k] = r]
    IN  [r \in 1..n |-> points[at[r]]]

\* DataPoint::operator==  (|t - other.t| < 1e-9: equal times on the grid)
SamePoint(a, b) == a.t = b.t

\* std::unique + erase: an element is kept unless it equals the last kept
\* one.  On the grid equality of times is transitive, so the last kept element
\* equals an element exactly when the element before it does.
UniquePoints(points) ==
    LET n       == Len(points)
        keep(k) == k = 1 \/ ~SamePoint(points[k - 1], points[k])
        pos     == [k \in 1..n |-> Cardinality({j \in 1..k : keep(j)})]
        m       == IF n = 0 THEN 0 ELSE pos[n]
    IN  [r \in 1..m |-> points[CHOOSE k \in 1..n : keep(k) /\ pos[k] = r]]

\* std::sort(points.begin(), points.end()); then unique and erase
SortUniquePoints(points) == UniquePoints(SortPoints(points))

Unzip(points) ==
    [t |-> [k \in 1..Len(points) |-> points[k].t],
     p |-> [k \in 1..Len(points) |-> points[k].p],
     d |-> [k \in 1..Len(points) |-> points[k].d]]

\* FittingCore::getLogSampledData: (outT, outP, outD) for the given series and
\* the sampling members m_isCustomSamplingEnabled, m_customIntervals
GetLogSampledData(srcT, srcP, srcD, enabled, intervals) ==
    IF srcT = <<>> THEN [t |-> <<>>, p |-> <<>>, d |-> <<>>]
    ELSE IF ~enabled
    THEN IF Len(srcT) <= TargetCount
         THEN [t |-> srcT, p |-> srcP, d |-> srcD]
         ELSE Unzip(SortUniquePoints(DefaultPlanPoints(srcT, srcP, srcD)))
    ELSE IF intervals = <<>>
         THEN [t |-> srcT, p |-> srcP, d |-> srcD]
         ELSE Unzip(SortUniquePoints(CustomPlanPoints(srcT, srcP, srcD, intervals)))

\* --------------------------------------------------- parameters and the map

\* a sum of squared residuals that is NaN (an encoding off the grid)
NaN == 0 - 1

\* a < b on doubles that may be NaN
LessD(a, b) == a # NaN /\ b # NaN /\ a < b

\* struct FitParameter {name, value, isFit, min, max}
FitParam(name, value, isFit, min, max) ==
    [name |-> name, value |-> value, isFit |-> isFit, min |-> min, max |-> max]

\* v * 1.01 on the value grid
Times101(v) == (v * 101) \div 100

\* Lf / L on the value grid
Quot(lf, l) == (lf * 100) \div l

\* QMap::insert / operator[]= : the map with key k set to v
MapSet(map, k, v) ==
    [n \in (DOMAIN map) \cup {k} |-> IF n = k THEN v ELSE map[n]]

\* for(const auto& p : params) currentParamMap.insert(p.name, p.value)
RECURSIVE MapOfParams(_, _)
MapOfParams(params, map) ==
    IF params = <<>> THEN map
    ELSE MapOfParams(Tail(params), MapSet(map, Head(params).name, Head(params).value))

\* A faulty variant of the selection of the free parameters that does not
\* leave LfD out: with it C15_FixedExceptProjected fails.
FitIndicesWithLfD(params) ==
    LET F[k \in 0..Len(params)] ==
            IF k = 0 THEN <<>>
            ELSE IF At(params, k - 1).isFit THEN Append(F[k - 1], k - 1) ELSE F[k - 1]
    IN  F[Len(params)]

\* fitIndices: the 0-based indices i with params[i].isFit && name != "LfD"
FitIndices(params) ==
    LET keep(i) == At(params, i).isFit /\ At(params, i).name # "LfD"
        F[k \in 0..Len(params)] ==
            IF k = 0 THEN <<>>
            ELSE IF keep(k - 1) THEN Append(F[k - 1], k - 1) ELSE F[k - 1]
    IN  F[Len(params)]

\* if both are present and first <= second: first = second * 1.01
ProjectPair(map, first, second) ==
    IF first \in DOMAIN map /\ second \in DOMAIN map /\ map[first] <= map[second]
    THEN MapSet(map, first, Times101(map[second]))
    ELSE map

\* if L and Lf are present and L > 1e-9: LfD = Lf / L
UpdateDeps(map) ==
    IF "L" \in DOMAIN map /\ "Lf" \in DOMAIN map /\ map["L"] > 0
    THEN MapSet(map, "LfD", Quot(map["Lf"], map["L"]))
    ELSE map

\* the initial constraints: kf > km, omega1 > omega2, then LfD
ProjectInitial(map) ==
    UpdateDeps(ProjectPair(ProjectPair(map, "kf", "km"), "omega1", "omega2"))

\* A faulty variant of ProjectTrial that leaves LfD as the previous map had
\* it: with it C7_LfDIsQuotient fails.
ProjectTrialStaleLfD(map) ==
    ProjectPair(ProjectPair(map, "kf", "km"), "omega1", "omega2")

\* the projection of a trial map: LfD first, then kf > km and omega1 > omega2
ProjectTrial(map) ==
    ProjectPair(ProjectPair(UpdateDeps(map), "kf", "km"), "omega1", "omega2")

\* newVal = qMax(min, qMin(newVal, max))
Clamp(newVal, min, max) == Max2(min, Min2(newVal, max))

\* bool isLog = (oldVal > 1e-12 && pName != "S" && pName != "nf")
IsLog(oldVal, pName) == oldVal > 0 /\ pName # "S" /\ pName # "nf"

\* The values a step can propose for a parameter before the clamp.  The step
\* delta solves normal equations built from the evaluator's replies, so it is
\* any real; in log mode newVal = pow(10, log10(oldVal) + delta) is never
\* negative.
StepVals(isLog) ==
    IF isLog THEN {0, 100, 300} ELSE {0 - 100, 100, 300}

\* the loop over fitIndices that writes the clamped new values into trialMap;
\* choice[i] is the value proposed for free parameter i
RECURSIVE ApplyStep(_, _, _, _, _)
ApplyStep(trialMap, params, fitIndices, choice, i) ==
    IF i >= Len(fitIndices) THEN trialMap
    ELSE LET p == At(params, At(fitIndices, i))
         IN  ApplyStep(MapSet(trialMap, p.name, Clamp(At(choice, i), p.min, p.max)),
                       params, fitIndices, choice, i + 1)

\* the proposals a step can make: one value per free parameter, drawn according
\* to the mode its current value selects
StepChoices(map, params, fitIndices) ==
    {c \in [1..Len(fitIndices) -> StepVals(TRUE) \cup StepVals(FALSE)] :
        \A k \in 1..Len(fitIndices) :
            LET p == At(params, fitIndices[k])
            IN  c[k] \in StepVals(IsLog(map[p.name], p.name))}

\* ---------------------------------------------------------- the evaluator

\* The lengths of the series calculateTheoreticalCurve(modelType, params, t)
\* can return for a grid of k times: one value per time, or a short reply.
CalLens(k) == {k} \cup (IF k > 0 THEN {k - 1} ELSE {})

\* A faulty variant of the length of the residual vector without the line
\* dCount = qMin(dCount, count): with it C16_LengthIsCommonPrefix fails.
ResidualLengthLooseDerivative(nP, nD, nPCal, nDCal) ==
    Min2(nP, nPCal) + Min2(nD, nDCal)

\* the length of the vector calculateResiduals builds from observations of
\* nP pressure and nD derivative samples and a reply of nPCal pressure and
\* nDCal derivative values
ResidualLength(nP, nD, nPCal, nDCal) ==
    LET count  == Min2(nP, nPCal)
        dCount == Min2(Min2(nD, nDCal), count)
    IN  count + dCount

\* the same for a reply of nCal values per series
ResidualCount(nP, nD, nCal) == ResidualLength(nP, nD, nCal, nCal)

\* the sums of squared residuals a vector of n residuals can have
SSEVals(n) ==
    IF n = 0 THEN {0} ELSE {16 * k : k \in 0..MaxSSE} \cup {NaN}

\* calculateResiduals + calculateSumSquaredError: the (length, SSE) pairs the
\* call can yield.  Without an evaluator or with an empty grid the vector is
\* empty.
ResidualReplies(mgr, fit) ==
    IF ~mgr \/ fit.t = <<>> THEN {[n |-> 0, sse |-> 0]}
    ELSE UNION {LET n == ResidualCount(Len(fit.p), Len(fit.d), nCal)
                IN  {[n |-> n, sse |-> e] : e \in SSEVals(n)} :
                nCal \in CalLens(Len(fit.t))}

\* ------------------------------------------------------------------ inputs

\* the observation sets the host stores: (t, deltaP, derivative)
ObsSets ==
    {[t |-> <<>>, p |-> <<>>, d |-> <<>>],
     [t |-> <<1, 2, 2, 4>>, p |-> <<5, 6, 7, 8>>, d |-> <<3, 3>>]}

\* struct SamplingInterval {tStart, tEnd, count}
Interval(tStart, tEnd, count) ==
    [tStart |-> tStart, tEnd |-> tEnd, count |-> count]

\* the (intervals, enabled) pairs the host configures
SamplingSettings ==
    {[intervals |-> <<>>, enabled |-> FALSE],
     [intervals |-> <<Interval(1, 2, 2)>>, enabled |-> TRUE]}

\* the (modelType, params, weight) triples the host passes to startFit; the
\* weight is in units of 0.01
StartArgs ==
    {[modelType |-> "homogeneous", weight |-> 100,
      params |-> <<FitParam("a", 300, TRUE, 100, 200)>>],
     [modelType |-> "homogeneous", weight |-> 50,
      params |-> <<FitParam("S", 100, TRUE, 0 - 100, 100)>>],
     [modelType |-> "homogeneous", weight |-> 100,
      params |-> <<FitParam("a", 100, FALSE, 0, 200)>>],
     [modelType |-> "fractured", weight |-> 100,
      params |-> <<FitParam("LfD", 100, TRUE, 0, 200)>>],
     [modelType |-> "composite", weight |-> 50,
      params |-> <<FitParam("kf", 200, TRUE, 0, 200),
                   FitParam("km", 200, FALSE, 0, 200)>>],
     [modelType |-> "composite", weight |-> 100,
      params |-> <<FitParam("kf", 100, TRUE, 0, 100),
                   FitParam("km", 0, FALSE, 0, 100)>>],
     [modelType |-> "dual", weight |-> 50,
      params |-> <<FitParam("omega1", 0 - 100, TRUE, 0 - 100, 0),
                   FitParam("omega2", 0 - 100, FALSE, 0 - 100, 0)>>],
     [modelType |-> "fractured", weight |-> 50,
      params |-> <<FitParam("L", 100, TRUE, 100, 200),
                   FitParam("Lf", 200, TRUE, 100, 200),
                   FitParam("LfD", 0, TRUE, 0, 100)>>],
     [modelType |-> "composite", weight |-> 100,
      params |-> <<FitParam("kf", 100, FALSE, 0, 200),
                   FitParam("km", 200, TRUE, 100, 200),
                   FitParam("S", 100, FALSE, 0, 100),
                   FitParam("LfD", 100, TRUE, 0, 200)>>]}

\* The start requests to tell apart: all of them when no fit runs; a request
\* made while one runs is ignored whatever its arguments, so that one request
\* stands for all.
StartRequests(running) ==
    IF running THEN {CHOOSE a \in StartArgs : TRUE} ELSE StartArgs

NoArgs == [modelType |-> "none", weight |-> 0, params |-> <<>>]
NoFit == [t |-> <<>>, p |-> <<>>, d |-> <<>>]
NoMap == [n \in {} |-> 0]
NoSnapshot == [kind |-> "none", sse |-> 0, n |-> 0, params |-> NoMap, hp |-> FALSE]

\* ------------------------------------------------------------------- state

VARIABLES
    \* FittingCore's members and the evaluator's precision mode
    m_modelManager,             \* TRUE: an evaluator is bound; FALSE: nullptr
    highPrecision,              \* the evaluator's mode (setHighPrecision)
    m_obs,                      \* m_obsTime, m_obsDeltaP, m_obsDerivative
    m_customIntervals,
    m_isCustomSamplingEnabled,
    m_stopRequested,
    watcherRunning,             \* m_watcher.isRunning()
    inFlight,                   \* optimization tasks launched and not returned
    \* the background task: its position, captured arguments and locals
    pc,
    args,                       \* modelType, params, weight
    fitIndices,
    fit,                        \* fitT, fitP, fitD
    lambdaExp,                  \* lambda = 10 ^ lambdaExp
    currentSSE,
    currentParamMap,
    residualsSize,              \* residuals.size()
    iter,
    tryIter,
    \* what the session has emitted, and what the host called during it
    signals,                    \* the signals of the session, in emission order
    snapshot,                   \* the last sigIterationUpdated payload
    stopCalled,                 \* stopFit was called while the session ran
    snapsAfterStop,             \* snapshots emitted since the first such call
    ignoredStart,               \* startFit was called while the session ran
    \* the resampler taken alone: its input, its output, and its output when
    \* it is given that output as input
    rsIn,
    rsOut,
    rsAgain,
    \* the length computation of calculateResiduals taken alone
    resIn,
    resOut,
    \* FittingChart::calculateHornerPressure taken alone
    hoIn,
    hoOut,
    \* the acceptance test of one damping trial taken alone
    trIn,
    trOut,
    \* the control of the optimisation loop taken alone
    lm,
    \* computeJacobian taken alone: its arguments, its column workers, the
    \* results of the parallel map, the order in which the workers ended and
    \* the matrix it returns
    jc

coreVars == <<m_modelManager, highPrecision, m_obs, m_customIntervals,
              m_isCustomSamplingEnabled, m_stopRequested, watcherRunning, inFlight>>
taskVars == <<pc, args, fitIndices, fit, lambdaExp, currentSSE, currentParamMap,
              residualsSize, iter, tryIter>>
sessionVars == <<signals, snapshot, stopCalled, snapsAfterStop, ignoredStart>>
hoVars == <<hoIn, hoOut>>
trVars == <<trIn, trOut>>
rsVars == <<rsIn, rsOut, rsAgain, resIn, resOut, hoVars, trVars, lm, jc>>
vars == <<coreVars, taskVars, sessionVars, rsVars>>

NoInput == [t |-> <<>>, p |-> <<>>, d |-> <<>>, enabled |-> FALSE, intervals |-> <<>>]
NoOutput == [done |-> FALSE, t |-> <<>>, p |-> <<>>, d |-> <<>>]
NoLengths == [nP |-> 0, nD |-> 0, nPCal |-> 0, nDCal |-> 0]
NoLength == [done |-> FALSE, n |-> 0]
NoHornerInput == [obsT |-> <<>>, nRawP |-> 0, producingTime |-> 0]
NoHornerOutput == [done |-> FALSE, zero |-> FALSE, first |-> 0, count |-> 0]
NoLoop == [pc |-> "none", iter |-> 0, tryIter |-> 0, lambdaExp |-> LambdaInitExp,
           stepAccepted |-> FALSE, outer |-> 0, trials |-> 0, accepts |-> 0,
           finished |-> FALSE]
NoJacobian == [params |-> <<>>, map |-> NoMap, nRes |-> 0, cols |-> <<>>,
               results |-> <<>>, order |-> <<>>, J |-> <<>>, returned |-> FALSE]
NoTrialInput == [sse |-> 0, map |-> NoMap, n |-> 0, lambdaExp |-> LambdaInitExp,
                 newSSE |-> 0, trialMap |-> NoMap, newN |-> 0]
NoTrialOutput == [done |-> FALSE, stepAccepted |-> FALSE, sse |-> 0, map |-> NoMap,
                  n |-> 0, lambdaExp |-> LambdaInitExp]

\* FittingCore::FittingCore: no evaluator, custom sampling off, no stop
\* request, nothing running; the host has stored nothing yet
InitCore ==
    /\ m_modelManager = FALSE
    /\ highPrecision = TRUE
    /\ m_obs = [t |-> <<>>, p |-> <<>>, d |-> <<>>]
    /\ m_customIntervals = <<>>
    /\ m_isCustomSamplingEnabled = FALSE
    /\ m_stopRequested = FALSE
    /\ watcherRunning = FALSE
    /\ inFlight = 0

InitTask ==
    /\ pc = "idle"
    /\ args = NoArgs
    /\ fitIndices = <<>>
    /\ fit = NoFit
    /\ lambdaExp = LambdaInitExp
    /\ currentSSE = 0
    /\ currentParamMap = NoMap
    /\ residualsSize = 0
    /\ iter = 0
    /\ tryIter = 0

InitSession ==
    /\ signals = <<>>
    /\ snapshot = NoSnapshot
    /\ stopCalled = FALSE
    /\ snapsAfterStop = 0
    /\ ignoredStart = FALSE

Init ==
    /\ InitCore
    /\ InitTask
    /\ InitSession
    /\ rsIn = NoInput
    /\ rsOut = NoOutput
    /\ rsAgain = NoOutput
    /\ resIn = NoLengths
    /\ resOut = NoLength
    /\ hoIn = NoHornerInput
    /\ hoOut = NoHornerOutput
    /\ trIn = NoTrialInput
    /\ trOut = NoTrialOutput
    /\ lm = NoLoop
    /\ jc = NoJacobian

\* the process is gone once a null evaluator was dereferenced and it crashed
Alive == pc # "crashed"

\* --------------------------------------------------------- host operations

\* The task reads the stored observations and the sampling settings once,
\* when it resamples: a setter called later in the session commutes with every
\* step the task still takes, and is represented by the same call made after
\* the task has returned.
BeforeResample == pc \in {"idle", "begin", "init"}

\* FittingCore::setModelManager.  The host binds the evaluator between
\* sessions.
SetModelManager(m) ==
    /\ Alive
    /\ ~watcherRunning
    /\ m_modelManager' = m
    /\ UNCHANGED <<highPrecision, m_obs, m_customIntervals, m_isCustomSamplingEnabled,
                   m_stopRequested, watcherRunning, inFlight>>
    /\ UNCHANGED <<taskVars, sessionVars, rsVars>>

\* FittingCore::setObservedData
SetObservedData(o) ==
    /\ Alive
    /\ BeforeResample
    /\ m_obs' = o
    /\ UNCHANGED <<m_modelManager, highPrecision, m_customIntervals,
                   m_isCustomSamplingEnabled, m_stopRequested, watcherRunning, inFlight>>
    /\ UNCHANGED <<taskVars, sessionVars, rsVars>>

\* FittingCore::setSamplingSettings
SetSamplingSettings(intervals, enabled) ==
    /\ Alive
    /\ BeforeResample
    /\ m_customIntervals' = intervals
    /\ m_isCustomSamplingEnabled' = enabled
    /\ UNCHANGED <<m_modelManager, highPrecision, m_obs, m_stopRequested,
                   watcherRunning, inFlight>>
    /\ UNCHANGED <<taskVars, sessionVars, rsVars>>

\* A faulty variant of startFit without the isRunning test: with it
\* C2_SingleFlight fails.
StartFitUnguarded(a) ==
    /\ Alive
    /\ m_stopRequested' = FALSE
    /\ watcherRunning' = TRUE
    /\ inFlight' = inFlight + 1
    /\ pc' = "begin"
    /\ args' = a
    /\ fitIndices' = <<>>
    /\ fit' = NoFit
    /\ lambdaExp' = LambdaInitExp
    /\ currentSSE' = 0
    /\ currentParamMap' = NoMap
    /\ residualsSize' = 0
    /\ iter' = 0
    /\ tryIter' = 0
    /\ signals' = <<>>
    /\ snapshot' = NoSnapshot
    /\ stopCalled' = FALSE
    /\ snapsAfterStop' = 0
    /\ ignoredStart' = FALSE
    /\ UNCHANGED <<m_modelManager, highPrecision, m_obs, m_customIntervals,
                   m_isCustomSamplingEnabled, rsVars>>

\* FittingCore::startFit: ignored while the watcher is running; otherwise the
\* stop request is cleared and the task is launched with the arguments captured
StartFit(a) ==
    /\ Alive
    /\ IF watcherRunning
       THEN /\ ignoredStart' = TRUE
            /\ UNCHANGED <<coreVars, taskVars, rsVars>>
            /\ UNCHANGED <<signals, snapshot, stopCalled, snapsAfterStop>>
       ELSE /\ m_stopRequested' = FALSE
            /\ watcherRunning' = TRUE
            /\ inFlight' = inFlight + 1
            /\ pc' = "begin"
            /\ args' = a
            /\ fitIndices' = <<>>
            /\ fit' = NoFit
            /\ lambdaExp' = LambdaInitExp
            /\ currentSSE' = 0
            /\ currentParamMap' = NoMap
            /\ residualsSize' = 0
            /\ iter' = 0
            /\ tryIter' = 0
            /\ signals' = <<>>
            /\ snapshot' = NoSnapshot
            /\ stopCalled' = FALSE
            /\ snapsAfterStop' = 0
            /\ ignoredStart' = FALSE
            /\ UNCHANGED <<m_modelManager, highPrecision, m_obs, m_customIntervals,
                           m_isCustomSamplingEnabled, rsVars>>

\* the host calls startFit
StartFitRequest == \E a \in StartRequests(watcherRunning) : StartFit(a)

\* FittingCore::stopFit
StopFit ==
    /\ Alive
    /\ m_stopRequested' = TRUE
    /\ stopCalled' = (stopCalled \/ watcherRunning)
    /\ UNCHANGED <<m_modelManager, highPrecision, m_obs, m_customIntervals,
                   m_isCustomSamplingEnabled, watcherRunning, inFlight>>
    /\ UNCHANGED <<taskVars, signals, snapshot, snapsAfterStop, ignoredStart, rsVars>>

\* ------------------------------------------------------ the background task

\* A faulty variant of the emission that sends every snapshot twice: with it
\* C21_OneSnapshotPerAcceptedStep fails.
EmitSnapshotTwice(kind, sse, n, map) ==
    /\ signals' = Append(Append(signals, kind), kind)
    /\ snapshot' = [kind |-> kind, sse |-> sse, n |-> n, params |-> map,
                    hp |-> highPrecision']
    /\ snapsAfterStop' = IF stopCalled THEN snapsAfterStop + 2 ELSE snapsAfterStop

\* emit sigIterationUpdated(sse / n, map, curve): the payload is kept with the
\* precision mode the curve was computed in
EmitSnapshot(kind, sse, n, map) ==
    /\ signals' = Append(signals, kind)
    /\ snapshot' = [kind |-> kind, sse |-> sse, n |-> n, params |-> map,
                    hp |-> highPrecision']
    /\ snapsAfterStop' = IF stopCalled THEN snapsAfterStop + 1 ELSE snapsAfterStop

\* m_modelManager->calculateTheoreticalCurve(...) through a null pointer is
\* undefined behaviour: the call may return some curve (the step goes on as
\* written) or the process may die here
Crash ==
    /\ ~m_modelManager
    /\ pc' = "crashed"
    /\ UNCHANGED <<coreVars, sessionVars, rsVars>>
    /\ UNCHANGED <<args, fitIndices, fit, lambdaExp, currentSSE, currentParamMap,
                   residualsSize, iter, tryIter>>

\* runLevenbergMarquardtOptimization up to the early return: low precision, the
\* free parameters, and finished at once when there is none
TaskBegin ==
    /\ pc = "begin"
    /\ highPrecision' = IF m_modelManager THEN FALSE ELSE highPrecision
    /\ fitIndices' = FitIndices(args.params)
    /\ IF Len(FitIndices(args.params)) = 0
       THEN /\ signals' = Append(signals, "finished")
            /\ pc' = "return"
       ELSE /\ signals' = signals
            /\ pc' = "init"
    /\ UNCHANGED <<m_modelManager, m_obs, m_customIntervals, m_isCustomSamplingEnabled,
                   m_stopRequested, watcherRunning, inFlight>>
    /\ UNCHANGED <<args, fit, lambdaExp, currentSSE, currentParamMap, residualsSize,
                   iter, tryIter>>
    /\ UNCHANGED <<snapshot, stopCalled, snapsAfterStop, ignoredStart, rsVars>>

\* the resample of the stored observations, the initial map with its
\* projections, and the first residuals
TaskInit ==
    /\ pc = "init"
    /\ fit' = GetLogSampledData(m_obs.t, m_obs.p, m_obs.d,
                                m_isCustomSamplingEnabled, m_customIntervals)
    /\ lambdaExp' = LambdaInitExp
    /\ currentParamMap' = ProjectInitial(MapOfParams(args.params, NoMap))
    /\ \E r \in ResidualReplies(m_modelManager, fit') :
          /\ residualsSize' = r.n
          /\ currentSSE' = r.sse
    /\ pc' = "baseline"
    /\ UNCHANGED <<coreVars, sessionVars, rsVars>>
    /\ UNCHANGED <<args, fitIndices, iter, tryIter>>

\* the initial notification
TaskBaseline ==
    /\ pc = "baseline"
    /\ \/ /\ UNCHANGED <<coreVars, stopCalled, ignoredStart, rsVars>>
          /\ EmitSnapshot("baseline", currentSSE, residualsSize, currentParamMap)
          /\ iter' = 0
          /\ pc' = "top"
          /\ UNCHANGED <<args, fitIndices, fit, lambdaExp, currentSSE, currentParamMap,
                         residualsSize, tryIter>>
       \/ Crash

\* !residuals.isEmpty() && (currentSSE / residuals.size()) < 3e-3
Converged(sse, n) == n # 0 /\ LessD(sse, GateMilli * n)

\* A faulty variant of the top of an outer iteration that never reads the
\* stop flag: with it C4_AtMostTwoAfterStop fails.
IterTopNoPoll ==
    /\ pc = "top"
    /\ IF iter >= MaxIter \/ Converged(currentSSE, residualsSize)
       THEN /\ pc' = "final"
            /\ iter' = 0
            /\ signals' = signals
       ELSE /\ pc' = "jacobian"
            /\ iter' = iter
            /\ signals' = Append(signals, "progress")
    /\ UNCHANGED <<coreVars, snapshot, stopCalled, snapsAfterStop, ignoredStart, rsVars>>
    /\ UNCHANGED <<args, fitIndices, fit, lambdaExp, currentSSE, currentParamMap,
                   residualsSize, tryIter>>

\* A faulty variant of the top of an outer iteration that reports progress
\* before it tests the convergence gate: with it C14_GateAtIterationZero
\* fails.
IterTopProgressFirst ==
    /\ pc = "top"
    /\ IF iter >= MaxIter \/ m_stopRequested
       THEN /\ pc' = "final"
            /\ iter' = 0
            /\ signals' = signals
       ELSE /\ signals' = Append(signals, "progress")
            /\ IF Converged(currentSSE, residualsSize)
               THEN pc' = "final" /\ iter' = 0
               ELSE pc' = "jacobian" /\ iter' = iter
    /\ UNCHANGED <<coreVars, snapshot, stopCalled, snapsAfterStop, ignoredStart, rsVars>>
    /\ UNCHANGED <<args, fitIndices, fit, lambdaExp, currentSSE, currentParamMap,
                   residualsSize, tryIter>>

\* the top of an outer iteration: the loop condition, the stop flag, the
\* convergence gate, then sigProgress.  The loop variables iter and tryIter
\* exist only inside their loops: they are back at 0 outside.
IterTop ==
    /\ pc = "top"
    /\ IF iter >= MaxIter \/ m_stopRequested \/ Converged(currentSSE, residualsSize)
       THEN /\ pc' = "final"
            /\ iter' = 0
            /\ signals' = signals
       ELSE /\ pc' = "jacobian"
            /\ iter' = iter
            /\ signals' = Append(signals, "progress")
    /\ UNCHANGED <<coreVars, snapshot, stopCalled, snapsAfterStop, ignoredStart, rsVars>>
    /\ UNCHANGED <<args, fitIndices, fit, lambdaExp, currentSSE, currentParamMap,
                   residualsSize, tryIter>>

\* computeJacobian and the normal equations H, g
Jacobian ==
    /\ pc = "jacobian"
    /\ tryIter' = 0
    /\ pc' = "trial"
    /\ UNCHANGED <<coreVars, sessionVars, rsVars>>
    /\ UNCHANGED <<args, fitIndices, fit, lambdaExp, currentSSE, currentParamMap,
                   residualsSize, iter>>

\* A faulty variant of the acceptance test that also takes a trial whose SSE
\* equals the current one: with it C18_AcceptIffStrictlyBelow fails.
AcceptsNotAbove(trialSSE, sse) ==
    trialSSE # NaN /\ sse # NaN /\ trialSSE <= sse

\* newSSE < currentSSE
Accepts(trialSSE, sse) == LessD(trialSSE, sse)

\* A faulty variant of the test whose rejection multiplies lambda by 100:
\* with it C20_DeadEndStopsAtThird fails.
DampingTestHundredfold(sse, map, n, lam, trialSSE, trialMap, trialN) ==
    IF Accepts(trialSSE, sse)
    THEN [stepAccepted |-> TRUE, sse |-> trialSSE, map |-> trialMap, n |-> trialN,
          lambdaExp |-> lam - 1]
    ELSE [stepAccepted |-> FALSE, sse |-> sse, map |-> map, n |-> n,
          lambdaExp |-> lam + 2]

\* if(newSSE < currentSSE) {...} else {...} of one damping trial: whether the
\* step is accepted and the SSE, parameter map, residual size and lambda the
\* trial leaves
DampingTest(sse, map, n, lam, trialSSE, trialMap, trialN) ==
    IF Accepts(trialSSE, sse)
    THEN [stepAccepted |-> TRUE, sse |-> trialSSE, map |-> trialMap, n |-> trialN,
          lambdaExp |-> lam - 1]
    ELSE [stepAccepted |-> FALSE, sse |-> sse, map |-> map, n |-> n,
          lambdaExp |-> lam + 1]

\* The proposals to tell apart in a trial of SSE trialSSE: all of them when
\* the trial is accepted; a rejected trial's map is discarded, so that one
\* proposal stands for all.
TrialSteps(trialSSE, sse, steps) ==
    IF Accepts(trialSSE, sse) THEN steps ELSE {CHOOSE c \in steps : TRUE}

\* One pass of the damping search: the trial map from a step, its residuals,
\* then acceptance (state replaced, lambda / 10, a snapshot whose mean divides
\* by nRes, the size the residuals had when the iteration began, and on to the
\* next outer iteration) or rejection (lambda * 10, and after the last try
\* the test !stepAccepted && lambda > 1e10).
Trial ==
    /\ pc = "trial"
    /\ \E steps \in {StepChoices(currentParamMap, args.params, fitIndices)} :
       \E r \in ResidualReplies(m_modelManager, fit) :
       \E c \in TrialSteps(r.sse, currentSSE, steps) :
       \E o \in {DampingTest(currentSSE, currentParamMap, residualsSize, lambdaExp,
                              r.sse,
                              ProjectTrial(ApplyStep(currentParamMap, args.params,
                                                     fitIndices, c, 0)),
                              r.n)} :
              IF o.stepAccepted
              THEN \/ /\ UNCHANGED <<coreVars, stopCalled, ignoredStart, rsVars>>
                      /\ currentSSE' = o.sse
                      /\ currentParamMap' = o.map
                      /\ residualsSize' = o.n
                      /\ lambdaExp' = o.lambdaExp
                      /\ EmitSnapshot("accepted", o.sse, residualsSize, o.map)
                      /\ tryIter' = 0
                      /\ iter' = iter + 1
                      /\ pc' = "top"
                      /\ UNCHANGED <<args, fitIndices, fit>>
                   \/ Crash
              ELSE /\ lambdaExp' = o.lambdaExp
                   /\ currentSSE' = o.sse
                   /\ currentParamMap' = o.map
                   /\ residualsSize' = o.n
                   /\ IF tryIter + 1 < MaxTry
                      THEN /\ pc' = "trial"
                           /\ tryIter' = tryIter + 1
                           /\ iter' = iter
                      ELSE IF o.lambdaExp > LambdaStopExp
                      THEN /\ pc' = "final"
                           /\ tryIter' = 0
                           /\ iter' = 0
                      ELSE /\ pc' = "top"
                           /\ tryIter' = 0
                           /\ iter' = iter + 1
                   /\ UNCHANGED <<coreVars, sessionVars, rsVars>>
                   /\ UNCHANGED <<args, fitIndices, fit>>

\* after the loop: high precision again, the final curve and the last
\* notification
TaskFinal ==
    /\ pc = "final"
    /\ \/ /\ highPrecision' = IF m_modelManager THEN TRUE ELSE highPrecision
          /\ EmitSnapshot("final", currentSSE, residualsSize, currentParamMap)
          /\ pc' = "return"
          /\ UNCHANGED <<m_modelManager, m_obs, m_customIntervals,
                         m_isCustomSamplingEnabled, m_stopRequested, watcherRunning,
                         inFlight>>
          /\ UNCHANGED <<args, fitIndices, fit, lambdaExp, currentSSE, currentParamMap,
                         residualsSize, iter, tryIter>>
          /\ UNCHANGED <<stopCalled, ignoredStart, rsVars>>
       \/ Crash

\* the task function returns: its captured arguments and locals are gone, the
\* future is finished, the watcher is no longer running and its finished
\* signal, connected to sigFitFinished in the constructor, is emitted
TaskReturn ==
    /\ pc = "return"
    /\ signals' = Append(signals, "finished")
    /\ watcherRunning' = FALSE
    /\ inFlight' = inFlight - 1
    /\ pc' = "idle"
    /\ args' = NoArgs
    /\ fitIndices' = <<>>
    /\ fit' = NoFit
    /\ lambdaExp' = LambdaInitExp
    /\ currentSSE' = 0
    /\ currentParamMap' = NoMap
    /\ residualsSize' = 0
    /\ iter' = 0
    /\ tryIter' = 0
    /\ UNCHANGED <<m_modelManager, highPrecision, m_obs, m_customIntervals,
                   m_isCustomSamplingEnabled, m_stopRequested>>
    /\ UNCHANGED <<snapshot, stopCalled, snapsAfterStop, ignoredStart, rsVars>>

Next ==
    \/ \E m \in BOOLEAN : SetModelManager(m)
    \/ \E o \in ObsSets : SetObservedData(o)
    \/ \E ss \in SamplingSettings : SetSamplingSettings(ss.intervals, ss.enabled)
    \/ StartFitRequest
    \/ StopFit
    \/ TaskBegin
    \/ TaskInit
    \/ TaskBaseline
    \/ IterTop
    \/ Jacobian
    \/ Trial
    \/ TaskFinal
    \/ TaskReturn

Spec == Init /\ [][Next]_vars

\* ---------------------------------------------- the resampler taken alone

\* the non-decreasing series of n times over 0..MaxT
NonDecreasing(n) ==
    {s \in [1..n -> 0..MaxT] : \A k \in 1..(n - 1) : s[k] <= s[k + 1]}

\* series of more than targetCount points, with repeated times
LongSeries ==
    {[k \in 1..(TargetCount + 1) |-> 1],
     [k \in 1..(TargetCount + 1) |-> IF k > TargetCount THEN 2 ELSE 1],
     [k \in 1..(TargetCount + 1) |-> 0]}

\* a pressure sample per time, and a derivative series one sample shorter
SeriesP(t) == [k \in 1..Len(t) |-> 10 + k]
SeriesD(t) == [k \in 1..(Len(t) - 1) |-> 20 + k]

\* the sampling members: disabled (with or without a stored plan), enabled
\* with an empty plan, enabled with one interval, with two, with an inverted
\* one, and with an interval followed by one for the last time alone
ResampleConfigs ==
    {[enabled |-> FALSE, intervals |-> <<>>],
     [enabled |-> FALSE, intervals |-> <<Interval(1, 2, 2)>>],
     [enabled |-> TRUE, intervals |-> <<>>],
     [enabled |-> TRUE, intervals |-> <<Interval(1, MaxT, 2)>>],
     [enabled |-> TRUE, intervals |-> <<Interval(0, 2, 3), Interval(2, MaxT, 2)>>],
     [enabled |-> TRUE, intervals |-> <<Interval(2, 1, 2)>>],
     [enabled |-> TRUE, intervals |-> <<Interval(1, MaxT, 2), Interval(MaxT, MaxT, 1)>>]}

ResampleInputs ==
    {[t |-> t, p |-> SeriesP(t), d |-> SeriesD(t),
      enabled |-> c.enabled, intervals |-> c.intervals] :
        t \in (UNION {NonDecreasing(n) : n \in 0..MaxLen}) \cup LongSeries,
        c \in ResampleConfigs}

InitResample ==
    /\ InitCore
    /\ InitTask
    /\ InitSession
    /\ rsIn \in ResampleInputs
    /\ rsOut = NoOutput
    /\ rsAgain = NoOutput
    /\ resIn = NoLengths
    /\ resOut = NoLength
    /\ hoIn = NoHornerInput
    /\ hoOut = NoHornerOutput
    /\ trIn = NoTrialInput
    /\ trOut = NoTrialOutput
    /\ lm = NoLoop
    /\ jc = NoJacobian

\* one call of getLogSampledData on the input
Resample ==
    /\ ~rsOut.done
    /\ LET out == GetLogSampledData(rsIn.t, rsIn.p, rsIn.d, rsIn.enabled,
                                    rsIn.intervals)
       IN  rsOut' = [done |-> TRUE, t |-> out.t, p |-> out.p, d |-> out.d]
    /\ UNCHANGED <<coreVars, taskVars, sessionVars, rsIn, rsAgain, resIn, resOut, hoVars, trVars, lm, jc>>

\* a second call of getLogSampledData, on the output of the first, with the
\* sampling members as they were
ResampleAgain ==
    /\ rsOut.done
    /\ ~rsAgain.done
    /\ LET out == GetLogSampledData(rsOut.t, rsOut.p, rsOut.d, rsIn.enabled,
                                    rsIn.intervals)
       IN  rsAgain' = [done |-> TRUE, t |-> out.t, p |-> out.p, d |-> out.d]
    /\ UNCHANGED <<coreVars, taskVars, sessionVars, rsIn, rsOut, resIn, resOut, hoVars, trVars, lm, jc>>

NextResample ==
    \/ Resample
    \/ ResampleAgain

SpecResample == InitResample /\ [][NextResample]_vars

\* ------------------------------- the residual length taken alone

\* the sizes of obsP, obsD and of the evaluator's two series
LengthInputs ==
    [nP : 0..MaxLen, nD : 0..MaxLen, nPCal : 0..MaxLen, nDCal : 0..MaxLen]

InitResiduals ==
    /\ InitCore
    /\ InitTask
    /\ InitSession
    /\ rsIn = NoInput
    /\ rsOut = NoOutput
    /\ rsAgain = NoOutput
    /\ resIn \in LengthInputs
    /\ resOut = NoLength
    /\ hoIn = NoHornerInput
    /\ hoOut = NoHornerOutput
    /\ trIn = NoTrialInput
    /\ trOut = NoTrialOutput
    /\ lm = NoLoop
    /\ jc = NoJacobian

\* one call of calculateResiduals with an evaluator bound and a non-empty
\* grid: the size of the vector it returns
CalculateResiduals ==
    /\ ~resOut.done
    /\ resOut' = [done |-> TRUE,
                  n |-> ResidualLength(resIn.nP, resIn.nD, resIn.nPCal, resIn.nDCal)]
    /\ UNCHANGED <<coreVars, taskVars, sessionVars, rsIn, rsOut, rsAgain, resIn, hoVars, trVars, lm, jc>>

NextResiduals == CalculateResiduals

SpecResiduals == InitResiduals /\ [][NextResiduals]_vars

\* ------------------------------------- the Horner regression taken alone

\* m_obsT as n times of which the first z are not above 1e-5 (0) and the
\* others are (1)
HornerTimes(n, z) == [k \in 1..n |-> IF k <= z THEN 0 ELSE 1]

\* m_obsT, the size of m_obsRawP and m_settings.producingTime (0, or 1 for a
\* positive time)
HornerInputs ==
    {[obsT |-> HornerTimes(n, z), nRawP |-> nRaw, producingTime |-> tp] :
        n \in 0..MaxObs, z \in 0..MaxObs, nRaw \in 0..MaxObs, tp \in 0..1}

\* X.size() after the filter loop: the indices i with dt > 1e-5 and
\* i < m_obsRawP.size() (val = (tp + dt) / dt is positive for them)
HornerValidCount(obsT, nRawP) ==
    Cardinality({i \in 1..Len(obsT) : obsT[i] > 0 /\ i <= nRawP})

\* int fitCount = nPoints * 0.3; if (fitCount < 3) fitCount = nPoints;
HornerFitCount(nPoints) ==
    LET fitCount == (nPoints * 3) \div 10
    IN  IF fitCount < 3 THEN nPoints ELSE fitCount

\* calculateHornerPressure up to the regression sums: either an early
\* return 0.0, or the window X[first .. first + count - 1] the sums run over
HornerWindow(obsT, nRawP, producingTime) ==
    IF obsT = <<>> \/ nRawP = 0 \/ producingTime <= 0
    THEN [zero |-> TRUE, first |-> 0, count |-> 0]
    ELSE LET nPoints == HornerValidCount(obsT, nRawP)
         IN  IF nPoints < 5
             THEN [zero |-> TRUE, first |-> 0, count |-> 0]
             ELSE [zero |-> FALSE,
                   first |-> nPoints - HornerFitCount(nPoints),
                   count |-> HornerFitCount(nPoints)]

InitHorner ==
    /\ InitCore
    /\ InitTask
    /\ InitSession
    /\ rsIn = NoInput
    /\ rsOut = NoOutput
    /\ rsAgain = NoOutput
    /\ resIn = NoLengths
    /\ resOut = NoLength
    /\ hoIn \in HornerInputs
    /\ hoOut = NoHornerOutput
    /\ trIn = NoTrialInput
    /\ trOut = NoTrialOutput
    /\ lm = NoLoop
    /\ jc = NoJacobian

\* one call of calculateHornerPressure
CalculateHornerPressure ==
    /\ ~hoOut.done
    /\ LET w == HornerWindow(hoIn.obsT, hoIn.nRawP, hoIn.producingTime)
       IN  hoOut' = [done |-> TRUE, zero |-> w.zero, first |-> w.first,
                     count |-> w.count]
    /\ UNCHANGED <<coreVars, taskVars, sessionVars, rsIn, rsOut, rsAgain,
                   resIn, resOut, hoIn, trVars, lm, jc>>

NextHorner == CalculateHornerPressure

SpecHorner == InitHorner /\ [][NextHorner]_vars

\* -------------------------------------- the acceptance test taken alone

\* the parameter maps of the acceptance test's inputs
TrialMaps == {MapSet(NoMap, "a", v) : v \in {100, 200}}

\* the exponents of lambda a session can hold
LambdaExps == (LambdaInitExp - MaxSSE)..(LambdaStopExp + MaxTry)

\* the state before the test (currentSSE, currentParamMap, residuals.size(),
\* lambda) and the trial (newSSE, trialMap, newRes.size())
TrialInputs ==
    [sse : SSEVals(1), map : TrialMaps, n : 1..2, lambdaExp : LambdaExps,
     newSSE : SSEVals(1), trialMap : TrialMaps, newN : 1..2]

InitTrial ==
    /\ InitCore
    /\ InitTask
    /\ InitSession
    /\ rsIn = NoInput
    /\ rsOut = NoOutput
    /\ rsAgain = NoOutput
    /\ resIn = NoLengths
    /\ resOut = NoLength
    /\ hoIn = NoHornerInput
    /\ hoOut = NoHornerOutput
    /\ trIn \in TrialInputs
    /\ trOut = NoTrialOutput
    /\ lm = NoLoop
    /\ jc = NoJacobian

\* one acceptance test
TestTrial ==
    /\ ~trOut.done
    /\ LET o == DampingTest(trIn.sse, trIn.map, trIn.n, trIn.lambdaExp,
                            trIn.newSSE, trIn.trialMap, trIn.newN)
       IN  trOut' = [done |-> TRUE, stepAccepted |-> o.stepAccepted, sse |-> o.sse,
                     map |-> o.map, n |-> o.n, lambdaExp |-> o.lambdaExp]
    /\ UNCHANGED <<coreVars, taskVars, sessionVars, rsIn, rsOut, rsAgain,
                   resIn, resOut, hoVars, trIn, lm, jc>>

NextTrial == TestTrial

SpecTrial == InitTrial /\ [][NextTrial]_vars

\* ------------------------------- the control of the loop taken alone

\* Whether a trial's SSE is below the current one and whether the mean is
\* below the gate are the evaluator's doing: here both are free choices, and
\* lm holds the loop's control alone: the position, iter, tryIter, lambda,
\* stepAccepted, and for the iteration under way the trials made and the
\* steps accepted (outer counts the iterations begun).

\* iter < maxIter
OuterLoopRuns(i) == i < MaxIter

\* A faulty variant of the inner loop condition that allows one more try:
\* with it C19_Terminates fails.
InnerLoopRunsOnceMore(t) == t <= MaxTry

\* tryIter < 5
InnerLoopRuns(t) == t < MaxTry

InitLoop ==
    /\ InitCore
    /\ InitTask
    /\ InitSession
    /\ rsIn = NoInput
    /\ rsOut = NoOutput
    /\ rsAgain = NoOutput
    /\ resIn = NoLengths
    /\ resOut = NoLength
    /\ hoIn = NoHornerInput
    /\ hoOut = NoHornerOutput
    /\ trIn = NoTrialInput
    /\ trOut = NoTrialOutput
    /\ lm = [NoLoop EXCEPT !.pc = "for"]
    /\ jc = NoJacobian

\* everything but lm
LoopFrame == UNCHANGED <<coreVars, taskVars, sessionVars, rsIn, rsOut, rsAgain,
                         resIn, resOut, hoVars, trVars, jc>>

\* for(int iter = 0; iter < maxIter; ++iter): the condition, the stop flag and
\* the gate, then the Jacobian and stepAccepted = false
LoopTop ==
    /\ lm.pc = "for"
    /\ \E gate \in BOOLEAN :
          IF OuterLoopRuns(lm.iter) /\ ~m_stopRequested /\ ~gate
          THEN lm' = [lm EXCEPT !.pc = "try", !.tryIter = 0, !.stepAccepted = FALSE,
                                !.outer = @ + 1, !.trials = 0, !.accepts = 0]
          ELSE lm' = [lm EXCEPT !.pc = "final"]
    /\ LoopFrame

\* for(int tryIter = 0; tryIter < 5; ++tryIter): one trial, accepted (lambda
\* / 10, stepAccepted, break) or rejected (lambda * 10)
LoopTrial ==
    /\ lm.pc = "try"
    /\ IF InnerLoopRuns(lm.tryIter)
       THEN \E accept \in BOOLEAN :
               IF accept
               THEN lm' = [lm EXCEPT !.pc = "after", !.lambdaExp = @ - 1,
                                     !.stepAccepted = TRUE, !.trials = @ + 1,
                                     !.accepts = @ + 1]
               ELSE lm' = [lm EXCEPT !.lambdaExp = @ + 1, !.tryIter = @ + 1,
                                     !.trials = @ + 1]
       ELSE lm' = [lm EXCEPT !.pc = "after"]
    /\ LoopFrame

\* if(!stepAccepted && lambda > 1e10) break; else ++iter
LoopAfter ==
    /\ lm.pc = "after"
    /\ IF ~lm.stepAccepted /\ lm.lambdaExp > LambdaStopExp
       THEN lm' = [lm EXCEPT !.pc = "final"]
       ELSE lm' = [lm EXCEPT !.pc = "for", !.iter = @ + 1]
    /\ LoopFrame

\* the final curve and snapshot, then the return and the watcher's finished
LoopFinal ==
    /\ lm.pc = "final"
    /\ lm' = [lm EXCEPT !.pc = "done", !.finished = TRUE]
    /\ LoopFrame

\* the steps of the task thread
LoopStep == LoopTop \/ LoopTrial \/ LoopAfter \/ LoopFinal

NextLoop == LoopStep \/ StopFit

\* the thread pool runs the task to its end
SpecLoop == InitLoop /\ [][NextLoop]_vars /\ WF_vars(LoopStep)

\* ------------------------------------------ computeJacobian taken alone

\* The parameter values of this part are in units of 1e-4, the step of a
\* perturbation in linear mode.

\* pow(10.0, log10(val) + 0.01): val * 1.023
PerturbUpLog(val) == (val * 1023) \div 1000

\* pow(10.0, log10(val) - 0.01): val * 0.977
PerturbDownLog(val) == (val * 977) \div 1000

\* pPlus[pName]: val up by h, in log10 (h = 0.01) or linearly (h = 1e-4)
PerturbUp(val, pName) == IF IsLog(val, pName) THEN PerturbUpLog(val) ELSE val + 1

\* pMinus[pName]
PerturbDown(val, pName) == IF IsLog(val, pName) THEN PerturbDownLog(val) ELSE val - 1

\* 1 / (2.0 * h)
InverseTwoH(val, pName) == IF IsLog(val, pName) THEN 50 ELSE 5000

\* the lambda updateDeps of computeColumn, with Lf / L in units of 1e-4
JacobianUpdateDeps(map) ==
    IF "L" \in DOMAIN map /\ "Lf" \in DOMAIN map /\ map["L"] > 0
    THEN MapSet(map, "LfD", (map["Lf"] * 10000) \div map["L"])
    ELSE map

\* params.value(pName): 0 for an absent key
MapValue(map, pName) == IF pName \in DOMAIN map THEN map[pName] ELSE 0

\* A faulty variant of the perturbed map that projects kf > km and
\* omega1 > omega2 as the accept step does: with it
\* C22_PerturbOneParameterOnly fails.
PerturbedMapProjected(map, pName, newVal) ==
    LET m == MapSet(map, pName, newVal)
    IN  ProjectPair(ProjectPair(IF pName = "L" \/ pName = "Lf"
                                THEN JacobianUpdateDeps(m) ELSE m,
                                "kf", "km"), "omega1", "omega2")

\* pPlus or pMinus: the copy of params with pName set to newVal, and LfD
\* recomputed when pName is L or Lf
PerturbedMap(map, pName, newVal) ==
    LET m == MapSet(map, pName, newVal)
    IN  IF pName = "L" \/ pName = "Lf" THEN JacobianUpdateDeps(m) ELSE m

\* the names a parameter can have, in a fixed order
ParamNames == <<"kf", "km", "L", "Lf", "LfD", "S", "a", "nf", "omega1", "omega2">>

\* The residuals of a parameter map.  The evaluator is a pure function of the
\* map; any function serves, and this one tells the parameters apart: two
\* residuals, the sum of the values and their sum weighted by position.
ResidualsOf(map) ==
    LET S[k \in 0..Len(ParamNames)] ==
            IF k = 0 THEN <<0, 0>>
            ELSE LET v == MapValue(map, ParamNames[k])
                 IN  <<S[k - 1][1] + v, S[k - 1][2] + k * v>>
    IN  S[Len(ParamNames)]

\* the column computeColumn returns from the residuals of pPlus and pMinus:
\* central differences, or zeros when a reply has not nRes values
ColumnOf(rPlus, rMinus, nRes, scale) ==
    IF Len(rPlus) = nRes /\ Len(rMinus) = nRes
    THEN [i \in 1..nRes |-> (rPlus[i] - rMinus[i]) * scale]
    ELSE [i \in 1..nRes |-> 0]

\* the name of the parameter of column j (0-based)
ColumnName(params, j) == At(params, At(FitIndices(params), j)).name

\* computeColumn(j) as a serial computation
ComputeColumn(params, map, nRes, j) ==
    LET pName == ColumnName(params, j)
        val   == MapValue(map, pName)
    IN  ColumnOf(ResidualsOf(PerturbedMap(map, pName, PerturbUp(val, pName))),
                 ResidualsOf(PerturbedMap(map, pName, PerturbDown(val, pName))),
                 nRes, InverseTwoH(val, pName))

\* the slot of results no column has been stored in
NoColumn == <<>>

\* A faulty variant of the parallel map that keeps the columns in the order
\* of their completion: with it C23_BulkSynchronous fails.
StoreInCompletionOrder(results, stored, j, col) ==
    [results EXCEPT ![stored + 1] = col]

\* QtConcurrent::blockingMapped: the result of element j is results[j],
\* whatever the order in which the workers end
StoreResult(results, stored, j, col) ==
    [results EXCEPT ![j + 1] = col]

\* the parameter lists computeJacobian is called with
JacobianParams ==
    {<<FitParam("kf", 20000, TRUE, 0, 20000), FitParam("km", 20000, FALSE, 0, 20000)>>,
     <<FitParam("L", 10000, TRUE, 10000, 20000), FitParam("Lf", 20000, TRUE, 10000, 20000),
       FitParam("LfD", 20000, TRUE, 0, 30000)>>,
     <<FitParam("S", 0 - 10000, TRUE, 0 - 10000, 10000), FitParam("a", 30000, TRUE, 0, 30000)>>,
     <<FitParam("omega1", 10100, TRUE, 0, 20000), FitParam("omega2", 10000, TRUE, 0, 20000)>>,
     <<FitParam("L", 0, TRUE, 0, 20000), FitParam("Lf", 2, FALSE, 0, 20000),
       FitParam("LfD", 5000, FALSE, 0, 30000)>>,
     <<FitParam("km", 10000, TRUE, 0, 20000), FitParam("kf", 10100, TRUE, 0, 20000),
       FitParam("S", 0, TRUE, 0, 10000)>>,
     <<FitParam("a", 10000, TRUE, 0, 30000), FitParam("nf", 20000, TRUE, 0, 30000),
       FitParam("omega2", 10000, TRUE, 0, 20000), FitParam("LfD", 10000, TRUE, 0, 30000)>>}

\* the sizes of baseResiduals: that of the evaluator's replies, or one more
JacobianSizes == {2, 3}

InitJacobian ==
    /\ InitCore
    /\ InitTask
    /\ InitSession
    /\ rsIn = NoInput
    /\ rsOut = NoOutput
    /\ rsAgain = NoOutput
    /\ resIn = NoLengths
    /\ resOut = NoLength
    /\ hoIn = NoHornerInput
    /\ hoOut = NoHornerOutput
    /\ trIn = NoTrialInput
    /\ trOut = NoTrialOutput
    /\ lm = NoLoop
    /\ \E ps \in JacobianParams, n \in JacobianSizes :
          jc = [params |-> ps, map |-> MapOfParams(ps, NoMap), nRes |-> n,
                cols |-> [j \in 1..Len(FitIndices(ps)) |->
                             [stage |-> "queued", pPlus |-> NoMap, pMinus |-> NoMap]],
                results |-> [j \in 1..Len(FitIndices(ps)) |-> NoColumn],
                order |-> <<>>, J |-> <<>>, returned |-> FALSE]

\* everything but jc
JacobianFrame == UNCHANGED <<coreVars, taskVars, sessionVars, rsIn, rsOut, rsAgain,
                             resIn, resOut, hoVars, trVars, lm>>

\* a worker of the pool builds pPlus and pMinus of column j (0-based)
ColumnPerturb ==
    \E j \in 0..(Len(jc.cols) - 1) :
    /\ jc.cols[j + 1].stage = "queued"
    /\ LET pName == ColumnName(jc.params, j)
           val   == MapValue(jc.map, pName)
       IN  jc' = [jc EXCEPT !.cols[j + 1] =
                     [stage  |-> "perturbed",
                      pPlus  |-> PerturbedMap(jc.map, pName, PerturbUp(val, pName)),
                      pMinus |-> PerturbedMap(jc.map, pName, PerturbDown(val, pName))]]
    /\ JacobianFrame

\* the worker evaluates the residuals of both maps and returns its column
ColumnReturn ==
    \E j \in 0..(Len(jc.cols) - 1) :
    /\ jc.cols[j + 1].stage = "perturbed"
    /\ LET pName == ColumnName(jc.params, j)
           col   == ColumnOf(ResidualsOf(jc.cols[j + 1].pPlus),
                             ResidualsOf(jc.cols[j + 1].pMinus),
                             jc.nRes, InverseTwoH(MapValue(jc.map, pName), pName))
       IN  jc' = [jc EXCEPT !.cols[j + 1].stage = "done",
                            !.results = StoreResult(jc.results, Len(jc.order), j, col),
                            !.order = Append(jc.order, j)]
    /\ JacobianFrame

\* blockingMapped returns when every worker has; the columns are copied into
\* J and computeJacobian returns
AssembleJacobian ==
    /\ ~jc.returned
    /\ \A j \in 1..Len(jc.cols) : jc.cols[j].stage = "done"
    /\ jc' = [jc EXCEPT !.J = [i \in 1..jc.nRes |->
                                  [j \in 1..Len(jc.cols) |->
                                      IF i <= Len(jc.results[j])
                                      THEN jc.results[j][i] ELSE 0]],
                        !.returned = TRUE]
    /\ JacobianFrame

NextJacobian ==
    \/ ColumnPerturb
    \/ ColumnReturn
    \/ AssembleJacobian

SpecJacobian == InitJacobian /\ [][NextJacobian]_vars

\* ------------------------------------------------------------------ claims

Last(s) == s[Len(s)]

\* the kinds of sigIterationUpdated emissions
SnapshotKinds == {"baseline", "accepted", "final"}

\* the session has run to its end: the task returned and finished fired
SessionDone == pc = "idle" /\ signals # <<>>

\* C1: in every session, the degenerate one included, finished is emitted
\* exactly once and no iteration_updated or progress signal follows it: in the
\* signal log of a session finished occurs only as the last entry, and a
\* session that is over has it.
C1_FinishedOnceAndLast ==
    /\ \A i \in 1..Len(signals) : signals[i] = "finished" => i = Len(signals)
    /\ SessionDone => Last(signals) = "finished"

\* C2: at most one optimization task is in flight, and while a session runs
\* no step (a startFit call in particular) launches a second task, replaces
\* the captured model, parameters and weight, or withdraws a pending stop
\* request.
C2_SingleFlight ==
    [][watcherRunning =>
          /\ inFlight = 1
          /\ inFlight' <= 1
          /\ (watcherRunning' => args' = args)
          /\ (m_stopRequested /\ watcherRunning' => m_stopRequested')]_vars

\* C2 witness: a startFit call was ignored during a session that is in its
\* damping search with a stop request pending
C2_Witness ==
    /\ ignoredStart
    /\ watcherRunning
    /\ m_stopRequested
    /\ pc = "trial"
    /\ inFlight = 1

\* C3: a session with a free parameter during which stopFit was called still
\* ends with a final snapshot followed by finished: it does not die on the
\* way, and when its task returns the last emission is the final snapshot.
C3_StopStillFinishes ==
    stopCalled =>
        /\ pc # "crashed"
        /\ (pc = "return" /\ Len(fitIndices) > 0 => Last(signals) = "final")

\* C4 as stated: once stopFit was called during a session, exactly one further
\* snapshot has been emitted when finished fires.
C4_ExactlyOneAfterStop ==
    (stopCalled /\ SessionDone) => snapsAfterStop = 1

\* C4 amended: after stopFit is called during a running session at most two
\* further snapshots are emitted (the one of the iteration in progress or the
\* baseline, and the final one), and no snapshot follows finished.
C4_AtMostTwoAfterStop ==
    /\ snapsAfterStop <= 2
    /\ \A i \in 1..Len(signals) : \A j \in (i + 1)..Len(signals) :
          signals[i] = "finished" => signals[j] \notin SnapshotKinds

\* C4 witness: a session that was stopped has finished after two further
\* snapshots, an accepted step and the final one
C4_Witness ==
    /\ stopCalled
    /\ SessionDone
    /\ snapsAfterStop = 2
    /\ \E i \in 1..Len(signals) : signals[i] = "accepted"

\* C5: in every snapshot of a session each free parameter lies within its own
\* [min, max].
C5_FreeWithinBounds ==
    (watcherRunning /\ snapshot.kind \in SnapshotKinds) =>
        \A k \in 1..Len(fitIndices) :
            LET p == At(args.params, fitIndices[k])
            IN  p.min <= snapshot.params[p.name] /\ snapshot.params[p.name] <= p.max

\* C6: in every snapshot with kf and km, kf > km; in every snapshot with
\* omega1 and omega2, omega1 > omega2.
C6_StrictOrder ==
    snapshot.kind \in SnapshotKinds =>
        /\ ({"kf", "km"} \subseteq DOMAIN snapshot.params
                => snapshot.params["kf"] > snapshot.params["km"])
        /\ ({"omega1", "omega2"} \subseteq DOMAIN snapshot.params
                => snapshot.params["omega1"] > snapshot.params["omega2"])

\* C7: in every snapshot with L and Lf where L > 1e-9, the entry LfD is
\* present and equals Lf / L of that snapshot (values in units of 0.01).
C7_LfDIsQuotient ==
    (/\ snapshot.kind \in SnapshotKinds
     /\ {"L", "Lf"} \subseteq DOMAIN snapshot.params
     /\ snapshot.params["L"] > 0) =>
        /\ "LfD" \in DOMAIN snapshot.params
        /\ snapshot.params["LfD"] * snapshot.params["L"] = snapshot.params["Lf"] * 100

\* C7 witness: an accepted step moved L away from its initial value and the
\* snapshot carries the quotient of the new values
C7_Witness ==
    /\ snapshot.kind = "accepted"
    /\ {"L", "Lf", "LfD"} \subseteq DOMAIN snapshot.params
    /\ snapshot.params["L"] = 200
    /\ snapshot.params["Lf"] = 100
    /\ snapshot.params["LfD"] = 50

\* C8: in a session run with an evaluator bound, on every exit path the
\* evaluator is in low precision from the first evaluation to the end of the
\* loop, and in high precision when the final snapshot is computed and when
\* the task returns and finished fires.
C8_PrecisionProtocol ==
    (m_modelManager /\ watcherRunning) =>
        /\ (pc \in {"baseline", "top", "jacobian", "trial"} => ~highPrecision)
        /\ (snapshot.kind = "final" => snapshot.hp)
        /\ (pc = "return" => highPrecision)

\* C9: a session started with no free parameter, with no evaluator bound, or
\* on empty observations emits no snapshot and does not go through the absent
\* evaluator.
C9_ShortCircuit ==
    (/\ watcherRunning
     /\ \/ Len(FitIndices(args.params)) = 0
        \/ ~m_modelManager
        \/ (pc \notin {"begin", "init"} /\ fit.t = <<>>)) =>
        /\ snapshot.kind = "none"
        /\ pc # "crashed"

\* C10: for every input series and sampling configuration the times the
\* resampler returns are strictly ascending (on the time grid, two times
\* closer than 1e-9 are equal).
C10_StrictlyAscending ==
    rsOut.done => \A k \in 1..(Len(rsOut.t) - 1) : rsOut.t[k] < rsOut.t[k + 1]

\* C11: with an empty interval list, what the resampler returns with custom
\* sampling enabled is what it returns for the same series with custom
\* sampling disabled.
C11_EmptyPlanAsDisabled ==
    (rsOut.done /\ rsIn.enabled /\ rsIn.intervals = <<>>) =>
        LET off == GetLogSampledData(rsIn.t, rsIn.p, rsIn.d, FALSE, <<>>)
        IN  rsOut.t = off.t /\ rsOut.p = off.p /\ rsOut.d = off.d

\* C12: the resampler is idempotent: called on its own output with the same
\* sampling members it returns that output again.
C12_Idempotent ==
    rsAgain.done =>
        rsAgain.t = rsOut.t /\ rsAgain.p = rsOut.p /\ rsAgain.d = rsOut.d

\* the mean squared residual sse / n carried by a snapshot is a number (not
\* 0 / 0 and not NaN)
MeanIsNumber(snap) == snap.n > 0 /\ snap.sse # NaN

\* the mean of snapshot b is above the mean of snapshot a
MeanAbove(b, a) ==
    MeanIsNumber(a) /\ MeanIsNumber(b) /\ b.sse * a.n > a.sse * b.n

\* C13: the sum of squared residuals strictly decreases at every accepted
\* step, and the mean squared residual carried by a snapshot is never above
\* the one carried by the snapshot before it in the session.
C13_MeansNeverIncrease ==
    [][(snapshot.kind \in SnapshotKinds /\ snapshot'.kind \in SnapshotKinds
            /\ snapshot' # snapshot) =>
          /\ (snapshot'.kind = "accepted" => LessD(currentSSE', currentSSE))
          /\ ~MeanAbove(snapshot', snapshot)]_vars

\* the session has not accepted a step: its residuals and map are those of
\* iteration 0
NoStepYet == \A i \in 1..Len(signals) : signals[i] # "accepted"

\* C14: when the residuals of iteration 0 are non-empty with a mean below
\* 3e-3, the loop exits on the gate before any Jacobian: no progress signal,
\* and exactly the baseline and the final snapshot, both with the initial
\* projected map.
C14_GateAtIterationZero ==
    (/\ watcherRunning
     /\ pc \in {"top", "jacobian", "trial", "final", "return"}
     /\ NoStepYet
     /\ Converged(currentSSE, residualsSize)) =>
        /\ pc \notin {"jacobian", "trial"}
        /\ \A i \in 1..Len(signals) : signals[i] # "progress"
        /\ snapshot.params = ProjectInitial(MapOfParams(args.params, NoMap))
        /\ (pc = "return" => signals = <<"baseline", "final">>)

\* C14 witness: a session never asked to stop is about to return after the
\* baseline and the final snapshot, its iteration-0 SSE being 0 over a
\* non-empty residual vector
C14_Witness ==
    /\ pc = "return"
    /\ ~m_stopRequested
    /\ residualsSize > 0
    /\ currentSSE = 0
    /\ signals = <<"baseline", "final">>
    /\ snapshot.kind = "final"

\* every parameter passed with isFit false whose name is not in the set
\* except has, in the snapshot, the value it was passed with
FixedKeepValue(except) ==
    \A k \in 1..Len(args.params) :
        LET p == args.params[k]
        IN  (~p.isFit /\ p.name \notin except) => snapshot.params[p.name] = p.value

\* LfD is not one of the free variables
LfDNotFree ==
    \A k \in 1..Len(fitIndices) : At(args.params, fitIndices[k]).name # "LfD"

\* C15 as stated: in every snapshot every parameter with isFit false other
\* than LfD has the value it had in the list passed to startFit, and LfD is
\* never a free variable.
C15_OnlyFreeVaried ==
    watcherRunning =>
        /\ LfDNotFree
        /\ (snapshot.kind \in SnapshotKinds => FixedKeepValue({"LfD"}))

\* C15 amended: the same for every parameter with isFit false other than
\* LfD, kf and omega1 (the projections kf > km and omega1 > omega2 rewrite kf
\* and omega1 whether they are free or not).
C15_FixedExceptProjected ==
    watcherRunning =>
        /\ LfDNotFree
        /\ (snapshot.kind \in SnapshotKinds => FixedKeepValue({"LfD", "kf", "omega1"}))

\* C15 witness: an accepted step moved the free km while S, passed with isFit
\* false, and LfD, passed with isFit true, are as they were passed
C15_Witness ==
    /\ watcherRunning
    /\ snapshot.kind = "accepted"
    /\ fitIndices = <<1>>
    /\ {"km", "S", "LfD"} \subseteq DOMAIN snapshot.params
    /\ snapshot.params["km"] = 100
    /\ snapshot.params["S"] = 100
    /\ snapshot.params["LfD"] = 100

C17_HornerTail ==
    hoOut.done =>
        LET N == HornerValidCount(hoIn.obsT, hoIn.nRawP)
        IN  IF N >= 5 /\ hoIn.producingTime > 0
            THEN /\ ~hoOut.zero
                 /\ hoOut.count = Max2((3 * N) \div 10, 3)
                 /\ hoOut.first = N - hoOut.count
            ELSE hoOut.zero

\* C18: a trial is accepted if and only if its SSE is strictly below the
\* current SSE; an accepted trial's parameter map, residuals and SSE replace
\* the current ones and lambda is divided by 10; a rejected trial (equal SSE
\* and NaN included) leaves the parameter map, residuals and SSE unchanged
\* and multiplies lambda by 10.
C18_AcceptIffStrictlyBelow ==
    trOut.done =>
        LET below == /\ trIn.newSSE # NaN
                     /\ trIn.sse # NaN
                     /\ trIn.newSSE < trIn.sse
        IN  /\ trOut.stepAccepted <=> below
            /\ trOut.stepAccepted =>
                    /\ trOut.sse = trIn.newSSE
                    /\ trOut.map = trIn.trialMap
                    /\ trOut.n = trIn.newN
                    /\ trOut.lambdaExp = trIn.lambdaExp - 1
            /\ ~trOut.stepAccepted =>
                    /\ trOut.sse = trIn.sse
                    /\ trOut.map = trIn.map
                    /\ trOut.n = trIn.n
                    /\ trOut.lambdaExp = trIn.lambdaExp + 1

\* a trial with the current SSE is rejected and changes lambda only
C18_Witness ==
    /\ trOut.done
    /\ trIn.newSSE = trIn.sse
    /\ trIn.sse # NaN
    /\ trIn.trialMap # trIn.map
    /\ ~trOut.stepAccepted
    /\ trOut.map = trIn.map
    /\ trOut.lambdaExp = trIn.lambdaExp + 1

\* C19: a session with a free parameter whose evaluator calls all return
\* reaches finished; it begins at most 50 outer iterations, each of which
\* makes at most 5 damping trials and accepts at most one step.
C19_Terminates ==
    /\ [](/\ lm.outer <= MaxIter
          /\ lm.trials <= MaxTry
          /\ lm.accepts <= 1)
    /\ <>lm.finished

\* a session that ends because iter reached maxIter
C19_Witness ==
    /\ lm.finished
    /\ lm.outer = MaxIter
    /\ lm.iter = MaxIter
    /\ ~m_stopRequested

\* the outer iterations begun so far: one sigProgress each
Progressed == Cardinality({i \in 1..Len(signals) : signals[i] = "progress"})

\* a session with free parameters, not stopped, not converged, in which no
\* trial has been accepted
DeadEnd ==
    /\ Len(fitIndices) > 0
    /\ ~m_stopRequested
    /\ ~Converged(currentSSE, residualsSize)
    /\ \A i \in 1..Len(signals) : signals[i] # "accepted"

\* C20: while no trial is accepted lambda grows tenfold per rejected trial,
\* from 0.01; the loop ends after the third outer iteration, 15 rejected
\* trials, when lambda first exceeds 1e10 at the end of an iteration, and the
\* final snapshot carries the initial projected parameter map.
C20_DeadEndStopsAtThird ==
    DeadEnd =>
        /\ pc = "trial" =>
                /\ lambdaExp = LambdaInitExp + MaxTry * (Progressed - 1) + tryIter
                /\ Progressed <= 3
        /\ pc \in {"final", "return"} =>
                /\ Progressed = 3
                /\ lambdaExp = LambdaInitExp + 3 * MaxTry
                /\ currentParamMap = ProjectInitial(MapOfParams(args.params, NoMap))
        /\ (pc = "return" /\ snapshot.kind = "final") =>
                snapshot.params = ProjectInitial(MapOfParams(args.params, NoMap))

\* a session whose SSE is NaN throughout has ended with its final snapshot
C20_Witness ==
    /\ DeadEnd
    /\ m_modelManager
    /\ pc = "return"
    /\ snapshot.kind = "final"
    /\ snapshot.sse = NaN
    /\ Progressed = 3
    /\ lambdaExp > LambdaStopExp

\* the snapshots of the signal log, in the order of their emission
Snapshots == SelectSeq(signals, LAMBDA k : k \in SnapshotKinds)

\* the accepted steps the signal log records
AcceptedCount == Cardinality({i \in 1..Len(signals) : signals[i] = "accepted"})

\* C21: a step of the damping search that accepts a trial emits exactly one
\* snapshot, with the accepted map, and ends the outer iteration; a rejected
\* trial emits none; no other step emits an accepted snapshot; so the
\* snapshots of a session that ran the loop are the baseline, one per
\* accepted step, then the final one: k + 2 for k accepted steps.
C21_OneSnapshotPerAcceptedStep ==
    /\ [][/\ pc = "trial" =>
               IF currentSSE' # currentSSE
               THEN /\ signals' = Append(signals, "accepted")
                    /\ snapshot'.kind = "accepted"
                    /\ snapshot'.params = currentParamMap'
                    /\ pc' = "top"
               ELSE /\ signals' = signals
                    /\ snapshot' = snapshot
                    /\ currentParamMap' = currentParamMap
          /\ (Len(signals') > Len(signals) /\ Last(signals') = "accepted") =>
               /\ pc = "trial"
               /\ LessD(currentSSE', currentSSE)]_vars
    /\ [](/\ \A i \in 1..Len(Snapshots) :
                /\ Snapshots[i] = "baseline" <=> i = 1
                /\ Snapshots[i] = "final" => i = Len(Snapshots)
          /\ \A i \in 1..Len(signals) :
                signals[i] = "accepted" => (i > 1 /\ signals[i - 1] = "progress")
          /\ (SessionDone /\ Snapshots # <<>>) =>
                /\ Last(Snapshots) = "final"
                /\ Len(Snapshots) = AcceptedCount + 2)

\* a session with two accepted steps is over
C21_Witness ==
    /\ SessionDone
    /\ AcceptedCount = 2
    /\ Snapshots = <<"baseline", "accepted", "accepted", "final">>

\* the keys a perturbation of pName may change
PerturbedKeys(pName) ==
    {pName} \cup (IF pName = "L" \/ pName = "Lf" THEN {"LfD"} ELSE {})

\* map m is a copy of the current map but for the perturbed parameter, which
\* has the value newVal whatever its bounds and whatever the other parameters
\* are, and for LfD, which is Lf / L when pName is L or Lf
PerturbedOnly(m, pName, newVal) ==
    /\ DOMAIN m = DOMAIN jc.map \cup PerturbedKeys(pName) \/ DOMAIN m = DOMAIN jc.map
    /\ \A n \in DOMAIN m \ PerturbedKeys(pName) : n \in DOMAIN jc.map /\ m[n] = jc.map[n]
    /\ m[pName] = newVal
    /\ (pName \in {"L", "Lf"} /\ {"L", "Lf"} \subseteq DOMAIN m /\ m["L"] > 0) =>
            m["LfD"] = (m["Lf"] * 10000) \div m["L"]
    /\ (pName \notin {"L", "Lf"} /\ "LfD" \in DOMAIN m) => m["LfD"] = jc.map["LfD"]

\* C22: the two maps of every Jacobian column differ from the current map
\* only in the perturbed parameter, which is moved up and down without clamp
\* and without the kf > km and omega1 > omega2 projections, and in LfD,
\* recomputed as Lf / L when the parameter is L or Lf; LfD itself is no
\* column; the current map is unchanged.
C22_PerturbOneParameterOnly ==
    /\ jc.map = MapOfParams(jc.params, NoMap)
    /\ \A j \in 1..Len(jc.cols) :
          LET pName == ColumnName(jc.params, j - 1)
              val   == MapValue(jc.map, pName)
              up    == IF val > 0 /\ pName \notin {"S", "nf"}
                       THEN (val * 1023) \div 1000 ELSE val + 1
              down  == IF val > 0 /\ pName \notin {"S", "nf"}
                       THEN (val * 977) \div 1000 ELSE val - 1
          IN  /\ pName # "LfD"
              /\ jc.cols[j].stage # "queued" =>
                    /\ down < val /\ val < up
                    /\ PerturbedOnly(jc.cols[j].pPlus, pName, up)
                    /\ PerturbedOnly(jc.cols[j].pMinus, pName, down)

\* the column of kf = km = max is perturbed: kf above its maximum in pPlus,
\* kf below km in pMinus
C22_Witness ==
    /\ Len(jc.cols) = 1
    /\ jc.cols[1].stage # "queued"
    /\ ColumnName(jc.params, 0) = "kf"
    /\ jc.cols[1].pPlus["kf"] > jc.params[1].max
    /\ jc.cols[1].pMinus["kf"] < jc.cols[1].pMinus["km"]

\* C23: computeJacobian returns only when every column worker has ended, and
\* whatever the order in which they ended, column j of the matrix it returns
\* is the column of free parameter j as a serial computation gives it.
C23_BulkSynchronous ==
    /\ jc.returned =>
          /\ \A j \in 1..Len(jc.cols) : jc.cols[j].stage = "done"
          /\ Len(jc.J) = jc.nRes
          /\ \A i \in 1..jc.nRes : \A j \in 1..Len(jc.cols) :
                jc.J[i][j] = ComputeColumn(jc.params, jc.map, jc.nRes, j - 1)[i]
    /\ ~jc.returned => jc.J = <<>>

\* the matrix is returned after the last column ended first and the first
\* one last, and its columns differ
C23_Witness ==
    /\ jc.returned
    /\ jc.order = <<2, 1, 0>>
    /\ jc.nRes = 2
    /\ jc.J[1][1] # jc.J[1][2]
    /\ jc.J[1][2] # jc.J[1][3]

\* the cursor scans a call of getLogSampledData runs on its input: for each,
\* the index window start..end-1, the ends lo and hi of the log targets and
\* their number
ScanWindows(in) ==
    IF in.t = <<>> THEN {}
    ELSE IF ~in.enabled
    THEN IF Len(in.t) <= TargetCount THEN {}
         ELSE {[start |-> 0, end |-> Len(in.t),
                lo |-> IF At(in.t, 0) <= 0 THEN ClampT ELSE At(in.t, 0),
                hi |-> At(in.t, Len(in.t) - 1), count |-> TargetCount]}
    ELSE {[start |-> LowerBound(in.t, in.intervals[k].tStart),
           end |-> UpperBound(in.t, in.intervals[k].tEnd),
           lo |-> IF At(in.t, LowerBound(in.t, in.intervals[k].tStart)) <= 0
                  THEN ClampT
                  ELSE At(in.t, LowerBound(in.t, in.intervals[k].tStart)),
           hi |-> At(in.t, UpperBound(in.t, in.intervals[k].tEnd) - 1),
           count |-> in.intervals[k].count] :
             k \in {j \in 1..Len(in.intervals) :
                      /\ in.intervals[j].count > 0
                      /\ LowerBound(in.t, in.intervals[j].tStart) < Len(in.t)
                      /\ LowerBound(in.t, in.intervals[j].tStart)
                            < UpperBound(in.t, in.intervals[j].tEnd)}}

\* C24: for every log target of every scan of the resampler, the index the
\* cursor scan selects lies in the window, at or after the selection for the
\* target before, and no index of the window at or after that selection has
\* a time strictly closer to the target; for every non-decreasing series,
\* repeated times included.  (The targets are taken last first.)
C24_ClosestFromCursor ==
    rsOut.done =>
        \A w \in ScanWindows(rsIn) :
        \A idxs \in {ScanTargets(rsIn.t, w.start, w.end, w.lo, w.hi, w.count)} :
        \A r \in 1..w.count :
            LET k    == w.count + 1 - r
                prev == IF k = 1 THEN w.start ELSE idxs[k - 1]
                tg   == Target(w.lo, w.hi, k - 1, w.count)
            IN  /\ idxs[k] \in prev..(w.end - 1)
                /\ \A m \in prev..(w.end - 1) :
                      ~Closer(At(rsIn.t, m), At(rsIn.t, idxs[k]), tg)

\* the resample of the observations and sampling settings now stored
StoredResample(obs, enabled, intervals) ==
    GetLogSampledData(obs.t, obs.p, obs.d, enabled, intervals)

\* C25: the series a session fits against is the resample of the observations
\* and sampling settings stored when startFit was called: from the return of
\* startFit until the task resamples, no step changes what the resample of
\* the stored observations and settings is, and the series the task takes is
\* that resample (after that the task works on its own copy).
C25_ResampleOfStartData ==
    [][(watcherRunning /\ pc \in {"begin", "init"}) =>
          /\ pc' \in {"begin", "init"} =>
                StoredResample(m_obs', m_isCustomSamplingEnabled', m_customIntervals')
                    = StoredResample(m_obs, m_isCustomSamplingEnabled, m_customIntervals)
          /\ pc' = "baseline" =>
                fit' = StoredResample(m_obs, m_isCustomSamplingEnabled, m_customIntervals)
          /\ pc' \notin {"begin", "init", "baseline"} => fit' = fit]_vars

====
